---- MODULE Spec2Model ----
(***************************************************************************)
(* Isolation Forest of pkg/detectors/iforest (iforest.go): Fit, Predict,   *)
(* PredictOne, PredictStream, Save, Load, Threshold, SetThreshold.         *)
(*                                                                         *)
(* float64 values are fixed-point numbers in thousandths, tagged so that   *)
(* NaN and the infinities are values of their own:                         *)
(*   [k |-> "num", v |-> 1207] is 1.207, [k |-> "nan", v |-> 0] is NaN.    *)
(* Feature values are small integers; a split value is kept in halves of a *)
(* feature unit, since rng.Float64() is modelled with the outcomes 0, 1/2. *)
(***************************************************************************)
EXTENDS Integers, Sequences, FiniteSets, TLC

VARIABLES
    forests,     \* forest id -> the IsolationForest struct (iforest.go:17-34)
    mu,          \* forest id -> state of its sync.RWMutex
    ret,         \* the last completed call of the library surface and its result
    fitLog,      \* forest id -> the datasets of its successful Fit calls, in order
    nMut,        \* forest id -> number of Load and SetThreshold calls made
    opts,        \* forest id -> the options it was constructed with
    toSend,      \* producer goroutine: the samples it still has to send on input
    input,       \* the input channel's buffer
    inputClosed, \* close(input) has happened
    output,      \* the output channel's buffer
    outputClosed,\* close(output) has happened
    cancelled,   \* ctx.Done() is closed
    spc,         \* PredictStream's position: idle, select, send, returned
    pending,     \* the Score built by PredictStream and not yet sent
    sret,        \* PredictStream's return value
    delivered,   \* the samples the producer has sent on input, in order
    consumed,    \* the samples PredictStream has received from input, in order
    emitted,     \* the Scores PredictStream has sent on output, in order
    received,    \* consumer goroutine: the Scores read from output, in order
    consumerDone,\* the consumer's range loop has exited
    gor,         \* goroutine id -> its call on forest 1, step by step
    installed    \* the states of forest 1 at the moments no writer held its lock

vars == <<forests, mu, ret, fitLog, nMut, opts, toSend, input, inputClosed, output,
          outputClosed, cancelled, spc, pending, sret, delivered, consumed, emitted,
          received, consumerDone, gor, installed>>

forestVars == <<forests, mu, ret, fitLog, nMut, opts>>
streamVars == <<toSend, input, inputClosed, output, outputClosed, cancelled,
                spc, pending, sret, delivered, consumed, emitted, received,
                consumerDone>>
concVars == <<gor, installed>>

-----------------------------------------------------------------------------
(* Bounds of the model. *)

MaxTrees == 2        \* n_trees ranges over 1..MaxTrees
MaxSampleSize == 3   \* sample_size ranges over 1..MaxSampleSize
MaxFits == 2         \* successful Fit calls per forest
MaxMutations == 1    \* Load and SetThreshold calls per forest
MaxStream == 2       \* samples the producer sends on input
ChanCap == 1         \* capacity of the input and of the output channel
MaxCalls == 1        \* calls each concurrent goroutine makes

ForestIds == {1, 2}

\* The feature vectors used as rows and as samples to score (dimension 2).
SampleA == <<0, 0>>
SampleB == <<2, 1>>
SampleC == <<1, 3>>
Samples == { SampleA, SampleB, SampleC }

\* The datasets given to Fit and the batches given to Predict.
Datasets == { << >>, <<SampleA>>, <<SampleA, SampleB>>, <<SampleA, SampleA, SampleB>>,
              <<SampleA, SampleB, SampleC>> }
Batches == { << >>, <<SampleB>>, <<SampleA, SampleB>>, <<SampleB, SampleC, SampleA>> }

\* contamination, in percent
Contaminations == {0, 50}
Seeds == {1, 7}

\* The arguments given to SetThreshold.
Thresholds == { [k |-> "num", v |-> 700] }

\* The n elements f[1], ..., f[n] as a sequence value (a Go slice of length n).
Slice(f, n) == SubSeq(f, 1, n)

RECURSIVE SeqsUpTo(_, _)
SeqsUpTo(S, n) ==
    IF n = 0 THEN { <<>> }
    ELSE LET shorter == SeqsUpTo(S, n - 1)
         IN shorter \cup { Append(q, x) : q \in { r \in shorter : Len(r) = n - 1 }, x \in S }

-----------------------------------------------------------------------------
(* float64 *)

Num(v) == [k |-> "num", v |-> v]
NaN == [k |-> "nan", v |-> 0]
PosInf == [k |-> "inf", v |-> 1]
NegInf == [k |-> "inf", v |-> -1]

Abs(x) == IF x < 0 THEN -x ELSE x
Sign(x) == IF x < 0 THEN -1 ELSE 1

\* -x
FNeg(x) == IF x.k = "nan" THEN NaN ELSE [k |-> x.k, v |-> -x.v]

\* x / y, IEEE 754: 0/0 and Inf/Inf are NaN, a non-zero number over 0 is infinite.
FDiv(x, y) ==
    IF x.k = "nan" \/ y.k = "nan" THEN NaN
    ELSE IF x.k = "inf" THEN (IF y.k = "inf" THEN NaN
                              ELSE IF x.v * Sign(y.v) < 0 THEN NegInf ELSE PosInf)
    ELSE IF y.k = "inf" THEN Num(0)
    ELSE IF y.v = 0 THEN (IF x.v = 0 THEN NaN
                          ELSE IF x.v < 0 THEN NegInf ELSE PosInf)
    ELSE Num(Sign(x.v) * Sign(y.v) * ((Abs(x.v) * 1000) \div Abs(y.v)))

\* x < y and x >= y: every comparison with NaN is false.
FLess(x, y) ==
    /\ x.k # "nan" /\ y.k # "nan"
    /\ IF x.k = "inf" THEN x.v < 0 /\ ~(y.k = "inf" /\ y.v < 0)
       ELSE IF y.k = "inf" THEN y.v > 0
       ELSE x.v < y.v

FGeq(x, y) == x.k # "nan" /\ y.k # "nan" /\ ~FLess(x, y)

RECURSIVE TwoTo(_)
TwoTo(n) == IF n <= 0 THEN 1 ELSE 2 * TwoTo(n - 1)

\* 2^(-f/1000) in thousandths for 0 <= f < 1000 (4th-order series of e^(-f ln 2)).
Exp2NegFrac(f) ==
    LET f2 == (f * f) \div 1000
        f3 == (f2 * f) \div 1000
        f4 == (f3 * f) \div 1000
    IN 1000 - (693 * f) \div 1000 + (240 * f2) \div 1000
            - (56 * f3) \div 1000 + (10 * f4) \div 1000

\* math.Pow(2, x)
Pow2(x) ==
    IF x.k = "nan" THEN NaN
    ELSE IF x.k = "inf" THEN (IF x.v < 0 THEN Num(0) ELSE PosInf)
    ELSE IF x.v <= 0
         THEN Num(Exp2NegFrac((-x.v) % 1000) \div TwoTo((-x.v) \div 1000))
         ELSE Num((1000000 * TwoTo(x.v \div 1000)) \div Exp2NegFrac(x.v % 1000))

\* math.Log(n) in thousandths, n = 1..8
LogMilli(n) == <<0, 693, 1099, 1386, 1609, 1792, 1946, 2079>>[n]

\* int(math.Ceil(math.Log2(float64(n)))) for n >= 1
RECURSIVE CeilLog2(_)
CeilLog2(n) == IF n <= 1 THEN 0 ELSE 1 + CeilLog2((n + 1) \div 2)

\* The Euler-Mascheroni constant of averagePathLength, in thousandths.
EulerMilli == 577

\* averagePathLength(n), n a count: c(n) = 2(ln(n-1) + gamma) - 2(n-1)/n, 0 for n <= 1
averagePathLength(n) ==
    IF n <= 1 THEN Num(0)
    ELSE Num(2 * (LogMilli(n - 1) + EulerMilli) - (2000 * (n - 1)) \div n)

-----------------------------------------------------------------------------
(* math/rand: a seeded generator; every draw advances the state. *)

NewSource(seed) == seed % 16
RngStep(s) == (5 * s + 3) % 16

\* rng.Intn(k): a value in 0..k-1
Intn(rng, k) == [val |-> (RngStep(rng) * k) \div 16, rng |-> RngStep(rng)]

\* rng.Float64(): a value in [0,1), here in halves: 0 or 1
Float64(rng) == [val |-> (RngStep(rng) * 2) \div 16, rng |-> RngStep(rng)]

\* rng.Perm(n): for i in 0..n-1 { j := Intn(i+1); m[i] = m[j]; m[j] = i }
RECURSIVE PermLoop(_, _, _, _)
PermLoop(rng, n, i, m) ==
    IF i >= n THEN [val |-> m, rng |-> rng]
    ELSE LET d == Intn(rng, i + 1)
             j == d.val
             m2 == Slice([x \in 1..n |-> IF x = j + 1 THEN i
                                         ELSE IF x = i + 1 THEN m[j + 1] ELSE m[x]], n)
         IN PermLoop(d.rng, n, i + 1, m2)

Perm(rng, n) == PermLoop(rng, n, 0, Slice([x \in 1..n |-> 0], n))

-----------------------------------------------------------------------------
(* iTree and node (iforest.go:36-53) *)

\* a nil *node
NilNode == [isNil |-> TRUE]

\* &node{size: n}
LeafNode(n) ==
    [splitFeature |-> 0, splitValue |-> 0, left |-> NilNode, right |-> NilNode, size |-> n]

\* &node{splitFeature, splitValue, left, right}
InnerNode(feature, splitValue, l, r) ==
    [splitFeature |-> feature, splitValue |-> splitValue, left |-> l, right |-> r, size |-> 0]

\* &iTree{root}; builtBy stamps the allocation with the Fit call that made it
\* (0: not made by Fit). It is not a field of the program.
iTree(root, stamp) == [root |-> root, builtBy |-> stamp]

Roots(trees) == [i \in DOMAIN trees |-> trees[i].root]

\* The struct fields as encoding/gob sees them: a field is sent only when its
\* name is exported (starts with an upper-case letter).
iTreeFields == << [name |-> "root", exported |-> FALSE] >>

nodeFields ==
    << [name |-> "splitFeature", exported |-> FALSE],
       [name |-> "splitValue", exported |-> FALSE],
       [name |-> "left", exported |-> FALSE],
       [name |-> "right", exported |-> FALSE],
       [name |-> "size", exported |-> FALSE] >>

-----------------------------------------------------------------------------
(* New and its options (iforest.go:55-104) *)

DefaultOpts == [nTrees |-> 100, sampleSize |-> 256, contamination |-> 10, seed |-> 42]

\* New(WithTrees(o.nTrees), WithSampleSize(o.sampleSize),
\*     WithContamination(o.contamination / 100), WithSeed(o.seed))
New(o) ==
    [ nTrees        |-> o.nTrees,
      sampleSize    |-> o.sampleSize,
      contamination |-> o.contamination,      \* in percent
      threshold     |-> Num(500),
      maxDepth      |-> CeilLog2(o.sampleSize),
      rng           |-> NewSource(o.seed),
      trees         |-> << >>,
      trained       |-> FALSE,
      avgPathLength |-> Num(0) ]

-----------------------------------------------------------------------------
(* Tree construction (iforest.go:150-203) *)

Min(a, b) == IF a < b THEN a ELSE b
Max(a, b) == IF a > b THEN a ELSE b

RECURSIVE ColMin(_, _, _)
ColMin(data, feature, i) ==
    IF i = 1 THEN data[1][feature + 1]
    ELSE Min(ColMin(data, feature, i - 1), data[i][feature + 1])

RECURSIVE ColMax(_, _, _)
ColMax(data, feature, i) ==
    IF i = 1 THEN data[1][feature + 1]
    ELSE Max(ColMax(data, feature, i - 1), data[i][feature + 1])

\* A partition that sends the rows equal to the split value left.
GoesLeftInclusive(row, feature, splitValue) == 2 * row[feature + 1] <= splitValue

\* row[feature] < splitValue, the split value being in halves
GoesLeft(row, feature, splitValue) == 2 * row[feature + 1] < splitValue

\* buildNode: returns the node and the generator after its draws. Draw order:
\* feature index, then split uniform, then the left subtree, then the right.
RECURSIVE buildNode(_, _, _, _, _)
buildNode(maxDepth, rng, data, nFeatures, depth) ==
    LET n == Len(data) IN
    IF depth >= maxDepth \/ n <= 1 THEN [node |-> LeafNode(n), rng |-> rng]
    ELSE
      LET fd == Intn(rng, nFeatures)
          feature == fd.val
          minVal == ColMin(data, feature, n)
          maxVal == ColMax(data, feature, n)
      IN IF minVal = maxVal THEN [node |-> LeafNode(n), rng |-> fd.rng]
         ELSE
           LET ud == Float64(fd.rng)
               splitValue == 2 * minVal + ud.val * (maxVal - minVal)
               leftData == SelectSeq(data, LAMBDA row : GoesLeft(row, feature, splitValue))
               rightData == SelectSeq(data, LAMBDA row : ~GoesLeft(row, feature, splitValue))
               l == buildNode(maxDepth, ud.rng, leftData, nFeatures, depth + 1)
               r == buildNode(maxDepth, l.rng, rightData, nFeatures, depth + 1)
           IN [node |-> InnerNode(feature, splitValue, l.node, r.node), rng |-> r.rng]

buildTree(maxDepth, rng, data, nFeatures, depth, stamp) ==
    LET b == buildNode(maxDepth, rng, data, nFeatures, depth)
    IN [tree |-> iTree(b.node, stamp), rng |-> b.rng]

-----------------------------------------------------------------------------
(* Scoring (iforest.go:217-279) *)

\* A nil dereference in pathLength: the call panics instead of returning.
Panic == [k |-> "panic", v |-> 0]

\* pathLength, in thousandths; -1 when it dereferences a nil node
RECURSIVE pathLength(_, _, _)
pathLength(sample, n, currentDepth) ==
    IF n = NilNode THEN -1
    ELSE IF n.left = NilNode /\ n.right = NilNode
         THEN 1000 * currentDepth + averagePathLength(n.size).v
    ELSE IF GoesLeft(sample, n.splitFeature, n.splitValue)
         THEN pathLength(sample, n.left, currentDepth + 1)
         ELSE pathLength(sample, n.right, currentDepth + 1)

RECURSIVE TotalPath(_, _, _)
TotalPath(sample, trees, i) ==
    IF i = 0 THEN 0 ELSE TotalPath(sample, trees, i - 1) + pathLength(sample, trees[i].root, 0)

\* predictOne: 2^(-avgPath / f.avgPathLength), avgPath = totalPath / len(f.trees)
predictOne(f, sample) ==
    IF \E i \in DOMAIN f.trees : pathLength(sample, f.trees[i].root, 0) < 0 THEN Panic
    ELSE LET totalPath == TotalPath(sample, f.trees, Len(f.trees))
             avgPath == FDiv(Num(totalPath), Num(1000 * Len(f.trees)))
         IN Pow2(FDiv(FNeg(avgPath), f.avgPathLength))

\* predict that appends to the slice it has already sized.
predictLoopAppend(f, data, i, scores) ==
    scores \o [x \in 1..Len(data) |-> predictOne(f, data[x])]

\* predict: scores[i] = predictOne(data[i]) for i in order
RECURSIVE predictLoop(_, _, _, _)
predictLoop(f, data, i, scores) ==
    IF i > Len(data) THEN scores
    ELSE predictLoop(f, data, i + 1,
                     Slice([x \in 1..Len(data) |->
                               IF x = i THEN predictOne(f, data[i]) ELSE scores[x]],
                           Len(data)))

predict(f, data) ==
    predictLoop(f, data, 1, Slice([i \in 1..Len(data) |-> Num(0)], Len(data)))

Panics(scores) == \E i \in DOMAIN scores : scores[i] = Panic

-----------------------------------------------------------------------------
(* float64 to the last bit, for the index arithmetic of the calibration       *)
(* (iforest.go:143 and 414). A value is m * 2^e, m a natural number of at most *)
(* MantissaBits bits kept as NumLimbs digits in base LimbBase, least           *)
(* significant first; every operation rounds to nearest, ties to even.         *)

MantissaBits == 53
LimbBase == 32768
NumLimbs == 5

\* the natural number k < LimbBase^2 * 2 as digits
BigOf(k) ==
    [i \in 1..NumLimbs |->
        IF i = 1 THEN k % LimbBase
        ELSE IF i = 2 THEN (k \div LimbBase) % LimbBase
        ELSE IF i = 3 THEN k \div (LimbBase * LimbBase)
        ELSE 0]

BigIsZero(n) == \A i \in 1..NumLimbs : n[i] = 0
BigIsOdd(n) == n[1] % 2 = 1

\* n * k for a small k
RECURSIVE BigMulFrom(_, _, _, _)
BigMulFrom(n, k, i, carry) ==
    IF i > NumLimbs THEN << >>
    ELSE LET t == n[i] * k + carry
         IN <<t % LimbBase>> \o BigMulFrom(n, k, i + 1, t \div LimbBase)

BigMulSmall(n, k) == BigMulFrom(n, k, 1, 0)

\* n divided by a small d: quotient q and remainder r
RECURSIVE BigDivFrom(_, _, _, _)
BigDivFrom(n, d, i, rem) ==
    IF i = 0 THEN [q |-> << >>, r |-> rem]
    ELSE LET t == rem * LimbBase + n[i]
             rest == BigDivFrom(n, d, i - 1, t % d)
         IN [q |-> Append(rest.q, t \div d), r |-> rest.r]

BigDivSmall(n, d) == BigDivFrom(n, d, NumLimbs, 0)

\* a - b for a >= b
RECURSIVE BigSubFrom(_, _, _, _)
BigSubFrom(a, b, i, borrow) ==
    IF i > NumLimbs THEN << >>
    ELSE LET t == a[i] - b[i] - borrow
         IN <<IF t < 0 THEN t + LimbBase ELSE t>>
            \o BigSubFrom(a, b, i + 1, IF t < 0 THEN 1 ELSE 0)

BigSub(a, b) == BigSubFrom(a, b, 1, 0)

\* n + 1
RECURSIVE BigIncFrom(_, _, _)
BigIncFrom(n, i, carry) ==
    IF i > NumLimbs THEN << >>
    ELSE LET t == n[i] + carry
         IN <<t % LimbBase>> \o BigIncFrom(n, i + 1, t \div LimbBase)

BigInc(n) == BigIncFrom(n, 1, 1)

\* 2^k
BigPow2(k) ==
    [i \in 1..NumLimbs |-> IF i = (k \div 15) + 1 THEN TwoTo(k % 15) ELSE 0]

\* the number of bits of n
RECURSIVE SmallBitLen(_)
SmallBitLen(k) == IF k = 0 THEN 0 ELSE 1 + SmallBitLen(k \div 2)

RECURSIVE BigBitLenFrom(_, _)
BigBitLenFrom(n, i) ==
    IF i = 0 THEN 0
    ELSE IF n[i] # 0 THEN 15 * (i - 1) + SmallBitLen(n[i])
    ELSE BigBitLenFrom(n, i - 1)

BigBitLen(n) == BigBitLenFrom(n, NumLimbs)

\* the digits of a number below LimbBase^2 as an integer
BigToInt(n) == n[1] + LimbBase * n[2]

\* n * 2^k
RECURSIVE BigShl(_, _)
BigShl(n, k) ==
    IF k <= 0 THEN n
    ELSE LET t == IF k < 15 THEN k ELSE 15
         IN BigShl(BigMulSmall(n, TwoTo(t)), k - t)

\* n divided by 2^k: the quotient q, and whether a non-zero remainder was lost
RECURSIVE BigShr(_, _)
BigShr(n, k) ==
    IF k <= 0 THEN [q |-> n, lost |-> FALSE]
    ELSE LET t == IF k < 15 THEN k ELSE 15
             h == BigDivSmall(n, TwoTo(t))
             rest == BigShr(h.q, k - t)
         IN [q |-> rest.q, lost |-> rest.lost \/ h.r # 0]

F64(m, e) == [m |-> m, e |-> e]

\* the value m * 2^e with m widened to MantissaBits bits (0 stays 0)
F64Normal(m, e) ==
    IF BigIsZero(m) THEN F64(m, 0)
    ELSE LET k == MantissaBits - BigBitLen(m)
         IN IF k > 0 THEN F64(BigShl(m, k), e - k) ELSE F64(m, e)

\* m * 2^e plus, when sticky, a non-zero part below the last bit of m, rounded to
\* MantissaBits bits; a sticky m has more than MantissaBits bits
F64Round(m, e, sticky) ==
    LET k == BigBitLen(m) - MantissaBits
    IN IF k <= 0 THEN F64(m, e)
       ELSE LET a == BigShr(m, k - 1)
                h == BigDivSmall(a.q, 2)
                up == h.r = 1 /\ (sticky \/ a.lost \/ BigIsOdd(h.q))
            IN F64(IF up THEN BigInc(h.q) ELSE h.q, e + k)

\* float64(k) * x for an integer 0 <= k < LimbBase
F64MulSmall(k, x) == F64Round(BigMulSmall(x.m, k), x.e, FALSE)

\* x / float64(d) for an integer 0 < d < 1024
F64DivSmall(x, d) ==
    LET n == F64Normal(x.m, x.e)
        h == BigDivSmall(BigMulSmall(n.m, 1024), d)
    IN IF BigIsZero(n.m) THEN n
       ELSE F64Round(h.q, n.e - 10, h.r # 0)

\* 1 - x for 0 < x < 1
F64OneMinus(x) ==
    LET n == F64Normal(x.m, x.e)
    IN F64Round(BigSub(BigPow2(-n.e), n.m), n.e, FALSE)

\* the float64 written c/100 in decimal (0.34 for c = 34), 0 < c < 100
F64FromPercent(c) ==
    LET h == BigDivSmall(BigMulSmall(BigPow2(60), c), 100)
    IN F64Round(h.q, -60, h.r # 0)

\* int(x) for 0 <= x < LimbBase^2
F64Trunc(x) ==
    IF BigIsZero(x.m) THEN 0
    ELSE IF x.e < 0 THEN BigToInt(BigShr(x.m, -x.e).q)
    ELSE BigToInt(BigShl(x.m, x.e))

-----------------------------------------------------------------------------
(* percentile (iforest.go:398-416) *)

\* The float64 values of the calibration, computed once for every contamination
\* c/100 with 0 < c < 100 and every slice length up to MaxRows.
Percents == 99
MaxRows == 6

\* f.contamination: the float64 written c/100 in decimal
contaminationFloats == Slice([c \in 1..Percents |-> F64FromPercent(c)], Percents)

\* 1-f.contamination
complementFloats ==
    Slice([c \in 1..Percents |-> F64OneMinus(contaminationFloats[c])], Percents)

\* 100*(1-f.contamination)
calibrationRanks ==
    Slice([c \in 1..Percents |-> F64MulSmall(100, complementFloats[c])], Percents)

\* float64(len(sorted)-1) * p for p = calibrationRanks[c] and len(sorted) = n
rankProducts ==
    Slice([c \in 1..Percents |->
              Slice([n \in 1..MaxRows |-> F64MulSmall(n - 1, calibrationRanks[c])],
                    MaxRows)], Percents)

\* float64(len(sorted)-1) * p / 100
rankQuotients ==
    Slice([c \in 1..Percents |->
              Slice([n \in 1..MaxRows |-> F64DivSmall(rankProducts[c][n], 100)],
                    MaxRows)], Percents)

\* int(float64(len(sorted)-1) * p / 100)
rankIndexes ==
    Slice([c \in 1..Percents |->
              Slice([n \in 1..MaxRows |-> F64Trunc(rankQuotients[c][n])], MaxRows)],
          Percents)

\* 100*(1-f.contamination), the contamination being c/100 as written in decimal
calibrationRank(c) == calibrationRanks[c]

\* idx := int(float64(len(sorted)-1) * p / 100), p a float64
percentileIndex(n, p) ==
    IF n <= MaxRows /\ \E c \in 1..Percents : calibrationRanks[c] = p
    THEN rankIndexes[CHOOSE c \in 1..Percents : calibrationRanks[c] = p][n]
    ELSE F64Trunc(F64DivSmall(F64MulSmall(n - 1, p), 100))

\* the inner loop of the insertion sort: for j := i; j > 0 && s[j] < s[j-1]; j--
RECURSIVE SortInner(_, _)
SortInner(s, j) ==
    IF j > 1 /\ FLess(s[j], s[j - 1])
    THEN SortInner(Slice([x \in 1..Len(s) |->
                             IF x = j THEN s[j - 1] ELSE IF x = j - 1 THEN s[j] ELSE s[x]],
                         Len(s)),
                   j - 1)
    ELSE s

RECURSIVE SortOuter(_, _)
SortOuter(s, i) == IF i > Len(s) THEN s ELSE SortOuter(SortInner(s, i), i + 1)


\* percentile(data, p)
percentile(data, p) ==
    IF Len(data) = 0 THEN Num(0)
    ELSE LET sorted == SortOuter(data, 2)
             idx == percentileIndex(Len(sorted), p)
         IN sorted[idx + 1]

-----------------------------------------------------------------------------
(* Fit (iforest.go:106-148) *)

\* one iteration of the tree loop: indices := f.rng.Perm(nSamples)[:sampleSize];
\* sample[j] = data[indices[j]]; f.trees[i] = f.buildTree(sample, nFeatures, 0)
FitTree(f, data, sampleSize, nFeatures, i, stamp) ==
    LET p == Perm(f.rng, Len(data))
        indices == SubSeq(p.val, 1, sampleSize)
        sample == Slice([j \in 1..sampleSize |-> data[indices[j] + 1]], sampleSize)
        t == buildTree(f.maxDepth, p.rng, sample, nFeatures, 0, stamp)
        trees == Slice([x \in 1..Len(f.trees) |->
                           IF x = i + 1 THEN t.tree ELSE f.trees[x]], Len(f.trees))
    IN [f EXCEPT !.rng = t.rng, !.trees = trees]

\* the tree loop: for i := 0; i < f.nTrees; i++ { ... }
RECURSIVE FitTrees(_, _, _, _, _, _)
FitTrees(f, data, sampleSize, nFeatures, i, stamp) ==
    IF i >= f.nTrees THEN f
    ELSE FitTrees(FitTree(f, data, sampleSize, nFeatures, i, stamp),
                  data, sampleSize, nFeatures, i + 1, stamp)

\* Fit that grows f.trees instead of replacing it.
MakeTreesKeepOld(f) == [i \in 1..f.nTrees |-> iTree(NilNode, 0)] \o f.trees

\* f.trees = make([]*iTree, f.nTrees)
MakeTrees(f) == Slice([i \in 1..f.nTrees |-> iTree(NilNode, 0)], f.nTrees)

\* Fit that resets the model before it looks at the data.
FitEmptyResets(f) ==
    [forest |-> [f EXCEPT !.trees = << >>, !.trained = FALSE], err |-> "EmptyData"]

\* Fit that draws the first permutation before it looks at the data.
FitEmptyDrawsFirst(f) ==
    [forest |-> [f EXCEPT !.rng = Perm(f.rng, 1).rng], err |-> "EmptyData"]

\* the return on len(data) == 0
FitEmpty(f) == [forest |-> f, err |-> "EmptyData"]

\* sampleSize := f.sampleSize; if sampleSize > nSamples { sampleSize = nSamples }
ClampSampleSize(f, nSamples) == IF f.sampleSize > nSamples THEN nSamples ELSE f.sampleSize


\* the threshold calibration
Calibrate(f, data) ==
    IF f.contamination > 0
    THEN [f EXCEPT !.threshold = percentile(predict(f, data), calibrationRank(f.contamination))]
    ELSE f

\* the body of Fit between Lock and Unlock: the forest after the call and the error
Fit(f, data, stamp) ==
    IF Len(data) = 0 THEN FitEmpty(f)
    ELSE LET nSamples == Len(data)
             nFeatures == Len(data[1])
             sampleSize == ClampSampleSize(f, nSamples)
             built == FitTrees([f EXCEPT !.trees = MakeTrees(f)], data, sampleSize,
                               nFeatures, 0, stamp)
             marked == [built EXCEPT !.avgPathLength = averagePathLength(sampleSize),
                                     !.trained = TRUE]
         IN [forest |-> Calibrate(marked, data), err |-> "nil"]

-----------------------------------------------------------------------------
(* Predict, PredictOne, Threshold, SetThreshold between lock and unlock *)

\* Predict without its trained check.
PredictUnchecked(f, data) == [scores |-> predict(f, data), err |-> "nil"]

\* Predict (iforest.go:206-215)
Predict(f, data) ==
    IF ~f.trained THEN [scores |-> << >>, err |-> "NotTrained"]
    ELSE LET scores == predict(f, data)
         IN IF Panics(scores) THEN [scores |-> << >>, err |-> "panic"]
            ELSE [scores |-> scores, err |-> "nil"]

\* PredictOne (iforest.go:232-241)
PredictOne(f, sample) ==
    IF ~f.trained THEN [score |-> Num(0), err |-> "NotTrained"]
    ELSE LET score == predictOne(f, sample)
         IN IF score = Panic THEN [score |-> Num(0), err |-> "panic"]
            ELSE [score |-> score, err |-> "nil"]

\* SetThreshold (iforest.go:392-396)
SetThreshold(f, t) == [f EXCEPT !.threshold = t]

-----------------------------------------------------------------------------
(* encoding/gob as Save and Load use it (iforest.go:317-382) *)

\* A blob is the sequence of the values encoded, each with its wire type.
WireInt(n) == [t |-> "int", v |-> n]
WireFloat(x) == [t |-> "float", v |-> x]
WireSlice(structs) == [t |-> "slice", v |-> structs]

\* enc.Encode of an int or a float64 always succeeds.
\* enc.Encode(f.trees): gob refuses a struct type that has fields but no exported
\* one ("gob: type iforest.iTree has no exported fields"); otherwise each element
\* is sent with its exported fields only.
EncodeTrees(trees) ==
    IF \A i \in DOMAIN iTreeFields : ~iTreeFields[i].exported
    THEN [item |-> WireSlice(<< >>), err |-> "SerializationFailed"]
    ELSE [item |-> WireSlice([i \in DOMAIN trees |-> [exportedOf |-> trees[i]]]),
          err |-> "nil"]

\* Save between RLock and RUnlock: the blob and the error
Save(f) ==
    IF ~f.trained THEN [blob |-> << >>, err |-> "NotTrained"]
    ELSE LET t == EncodeTrees(f.trees)
         IN IF t.err # "nil" THEN [blob |-> << >>, err |-> t.err]
            ELSE [blob |-> << WireInt(f.nTrees), WireInt(f.sampleSize),
                              WireFloat(Num(10 * f.contamination)),
                              WireFloat(f.threshold), WireFloat(f.avgPathLength),
                              t.item >>,
                  err |-> "nil"]

\* The fields Load decodes, in order, and the wire type each needs.
LoadFields == << "nTrees", "sampleSize", "contamination", "threshold",
                 "avgPathLength", "trees" >>

WireTypeOf(field) ==
    IF field \in {"nTrees", "sampleSize"} THEN "int"
    ELSE IF field = "trees" THEN "slice" ELSE "float"

\* dec.Decode(&f.trees): a slice of as many *iTree as the wire slice has elements;
\* a field of the wire struct is stored only into an exported field of iTree, so
\* root stays nil.
DecodeTrees(structs) ==
    [i \in DOMAIN structs |->
        IF \E j \in DOMAIN iTreeFields : iTreeFields[j].exported
        THEN structs[i].exportedOf
        ELSE iTree(NilNode, 0)]

\* dec.Decode(&f.<field>) of a wire value of the right type
DecodeInto(f, field, item) ==
    IF field = "nTrees" THEN [f EXCEPT !.nTrees = item.v]
    ELSE IF field = "sampleSize" THEN [f EXCEPT !.sampleSize = item.v]
    ELSE IF field = "contamination" THEN [f EXCEPT !.contamination = item.v.v \div 10]
    ELSE IF field = "threshold" THEN [f EXCEPT !.threshold = item.v]
    ELSE IF field = "avgPathLength" THEN [f EXCEPT !.avgPathLength = item.v]
    ELSE [f EXCEPT !.trees = DecodeTrees(item.v)]

\* f.maxDepth = int(math.Ceil(math.Log2(float64(f.sampleSize)))); f.trained = true
LoadFinish(f) == [f EXCEPT !.maxDepth = CeilLog2(f.sampleSize), !.trained = TRUE]

\* Load between Lock and Unlock, from its k-th Decode on: each Decode writes
\* straight into the forest's field; the first failure returns.
RECURSIVE LoadFrom(_, _, _)
LoadFrom(f, data, k) ==
    IF k > Len(LoadFields)
    THEN [forest |-> LoadFinish(f), err |-> "nil"]
    ELSE IF k > Len(data) \/ data[k].t # WireTypeOf(LoadFields[k])
    THEN [forest |-> f, err |-> "DeserializationFailed"]
    ELSE LoadFrom(DecodeInto(f, LoadFields[k], data[k]), data, k + 1)

Load(f, data) == LoadFrom(f, data, 1)

\* The byte sequences given to Load: a well-formed blob, truncations of it, and
\* one whose first value has the wrong type.
FullBlob ==
    << WireInt(1), WireInt(2), WireFloat(Num(0)), WireFloat(Num(600)),
       WireFloat(Num(154)), WireSlice(<< [Root |-> 0] >>) >>

Blobs == { SubSeq(FullBlob, 1, k) : k \in {0, 2, 5, 6} } \cup { << WireFloat(Num(500)) >> }

-----------------------------------------------------------------------------
(* sync.RWMutex *)

FreeLock == [writer |-> FALSE, readers |-> 0]
CanLock(m) == ~m.writer /\ m.readers = 0
Lock(m) == [m EXCEPT !.writer = TRUE]
Unlock(m) == [m EXCEPT !.writer = FALSE]
\* A read lock that does not wait for the writer.
CanRLockAnyTime(m) == TRUE

CanRLock(m) == ~m.writer
RLock(m) == [m EXCEPT !.readers = @ + 1]
RUnlock(m) == [m EXCEPT !.readers = @ - 1]

-----------------------------------------------------------------------------
(* The calls of the library surface, each from its lock to its unlock. *)

NoArg == << >>
Result(op, f, arg, err, scores, blob) ==
    [op |-> op, f |-> f, arg |-> arg, err |-> err, scores |-> scores, blob |-> blob]

FitCall(f, data) ==
    /\ Len(fitLog[f]) < MaxFits
    /\ CanLock(mu[f])
    /\ LET r == Fit(forests[f], data, Len(fitLog[f]) + 1) IN
         /\ forests' = [forests EXCEPT ![f] = r.forest]
         /\ fitLog' = IF r.err = "nil" THEN [fitLog EXCEPT ![f] = Append(@, data)]
                      ELSE fitLog
         /\ ret' = Result("Fit", f, data, r.err, << >>, << >>)
    /\ mu' = [mu EXCEPT ![f] = Unlock(Lock(mu[f]))]
    /\ UNCHANGED <<concVars, nMut, opts, streamVars>>

LoadCall(f, data) ==
    /\ nMut[f] < MaxMutations
    /\ CanLock(mu[f])
    /\ LET r == Load(forests[f], data) IN
         /\ forests' = [forests EXCEPT ![f] = r.forest]
         /\ ret' = Result("Load", f, NoArg, r.err, << >>, data)
    /\ mu' = [mu EXCEPT ![f] = Unlock(Lock(mu[f]))]
    /\ nMut' = [nMut EXCEPT ![f] = @ + 1]
    /\ UNCHANGED <<concVars, fitLog, opts, streamVars>>

SetThresholdCall(f, t) ==
    /\ nMut[f] < MaxMutations
    /\ CanLock(mu[f])
    /\ forests' = [forests EXCEPT ![f] = SetThreshold(@, t)]
    /\ ret' = Result("SetThreshold", f, NoArg, "nil", <<t>>, << >>)
    /\ mu' = [mu EXCEPT ![f] = Unlock(Lock(mu[f]))]
    /\ nMut' = [nMut EXCEPT ![f] = @ + 1]
    /\ UNCHANGED <<concVars, fitLog, opts, streamVars>>

PredictCall(f, data) ==
    /\ CanRLock(mu[f])
    /\ LET r == Predict(forests[f], data) IN
         ret' = Result("Predict", f, data, r.err, r.scores, << >>)
    /\ mu' = [mu EXCEPT ![f] = RUnlock(RLock(mu[f]))]
    /\ UNCHANGED <<concVars, forests, fitLog, nMut, opts, streamVars>>

PredictOneCall(f, sample) ==
    /\ CanRLock(mu[f])
    /\ LET r == PredictOne(forests[f], sample) IN
         ret' = Result("PredictOne", f, <<sample>>, r.err,
                       IF r.err = "nil" THEN <<r.score>> ELSE << >>, << >>)
    /\ mu' = [mu EXCEPT ![f] = RUnlock(RLock(mu[f]))]
    /\ UNCHANGED <<concVars, forests, fitLog, nMut, opts, streamVars>>

SaveCall(f) ==
    /\ CanRLock(mu[f])
    /\ LET r == Save(forests[f]) IN
         ret' = Result("Save", f, NoArg, r.err, << >>, r.blob)
    /\ mu' = [mu EXCEPT ![f] = RUnlock(RLock(mu[f]))]
    /\ UNCHANGED <<concVars, forests, fitLog, nMut, opts, streamVars>>

ThresholdCall(f) ==
    /\ CanRLock(mu[f])
    /\ ret' = Result("Threshold", f, NoArg, "nil", <<forests[f].threshold>>, << >>)
    /\ mu' = [mu EXCEPT ![f] = RUnlock(RLock(mu[f]))]
    /\ UNCHANGED <<concVars, forests, fitLog, nMut, opts, streamVars>>

-----------------------------------------------------------------------------
(* PredictStream (iforest.go:281-315) on forest 1, with the producer and the *)
(* consumer goroutines of TestPredictStream and of the README.               *)

\* The observation logs (delivered, consumed, emitted, received) keep the first
\* MaxStream entries; a pipeline of MaxStream samples never writes more.
Logged(log, x) == IF Len(log) < MaxStream THEN Append(log, x) ELSE log

\* detectors.Score{Value, IsAnomaly, Features} (detector.go:34-44)
Score(value, isAnomaly, features) ==
    [Value |-> value, IsAnomaly |-> isAnomaly, Features |-> features]

\* the entry: RLock; if !f.trained { RUnlock; return error }; RUnlock
StreamEnter ==
    /\ spc = "idle"
    /\ CanRLock(mu[1])
    /\ IF ~forests[1].trained
       THEN spc' = "returned" /\ sret' = "NotTrained"
       ELSE spc' = "select" /\ sret' = sret
    /\ mu' = [mu EXCEPT ![1] = RUnlock(RLock(mu[1]))]
    /\ UNCHANGED <<concVars, forests, ret, fitLog, nMut, opts, toSend, input, inputClosed,
                   output, outputClosed, cancelled, pending, delivered, consumed,
                   emitted, received, consumerDone>>

\* outer select, case <-ctx.Done(): return ctx.Err()
StreamCancelRecv ==
    /\ spc = "select"
    /\ cancelled
    /\ spc' = "returned"
    /\ sret' = "Cancelled"
    /\ UNCHANGED <<concVars, forestVars, toSend, input, inputClosed, output, outputClosed,
                   cancelled, pending, delivered, consumed, emitted, received,
                   consumerDone>>

\* outer select, case sample, ok := <-input with ok: PredictOne(sample), then the
\* Score is built (IsAnomaly from f.threshold as it is now) and the inner select
\* is entered; a scoring error skips the sample.
StreamRecv ==
    /\ spc = "select"
    /\ input # << >>
    /\ CanRLock(mu[1])
    /\ LET sample == Head(input)
           r == PredictOne(forests[1], sample)
       IN /\ input' = Tail(input)
          /\ consumed' = Logged(consumed, sample)
          /\ IF r.err = "panic"
             THEN spc' = "returned" /\ sret' = "panic" /\ pending' = pending
             ELSE IF r.err # "nil"
             THEN spc' = "select" /\ sret' = sret /\ pending' = pending
             ELSE /\ spc' = "send"
                  /\ sret' = sret
                  /\ pending' = << Score(r.score, FGeq(r.score, forests[1].threshold),
                                         sample) >>
    /\ mu' = [mu EXCEPT ![1] = RUnlock(RLock(mu[1]))]
    /\ UNCHANGED <<concVars, forests, ret, fitLog, nMut, opts, toSend, inputClosed, output,
                   outputClosed, cancelled, delivered, emitted, received,
                   consumerDone>>

\* outer select, case sample, ok := <-input with !ok: return nil
StreamRecvClosed ==
    /\ spc = "select"
    /\ input = << >>
    /\ inputClosed
    /\ spc' = "returned"
    /\ sret' = "nil"
    /\ UNCHANGED <<concVars, forestVars, toSend, input, inputClosed, output, outputClosed,
                   cancelled, pending, delivered, consumed, emitted, received,
                   consumerDone>>

\* A send that gives up when output has no room.
StreamSendDropping ==
    /\ spc = "send"
    /\ ~outputClosed
    /\ IF Len(output) < ChanCap
       THEN output' = Append(output, pending[1]) /\ emitted' = Logged(emitted, pending[1])
       ELSE UNCHANGED <<output, emitted>>
    /\ pending' = << >>
    /\ spc' = "select"
    /\ UNCHANGED <<concVars, forestVars, toSend, input, inputClosed, outputClosed, cancelled,
                   sret, delivered, consumed, received, consumerDone>>

\* inner select, case output <- Score{...}
StreamSend ==
    /\ spc = "send"
    /\ ~outputClosed
    /\ Len(output) < ChanCap
    /\ output' = Append(output, pending[1])
    /\ emitted' = Logged(emitted, pending[1])
    /\ pending' = << >>
    /\ spc' = "select"
    /\ UNCHANGED <<concVars, forestVars, toSend, input, inputClosed, outputClosed, cancelled,
                   sret, delivered, consumed, received, consumerDone>>

\* A select of PredictStream that has no ctx.Done() case.
SelectWithoutDone == FALSE /\ UNCHANGED vars

\* inner select, case <-ctx.Done(): return ctx.Err()
StreamCancelSend ==
    /\ spc = "send"
    /\ cancelled
    /\ spc' = "returned"
    /\ sret' = "Cancelled"
    /\ UNCHANGED <<concVars, forestVars, toSend, input, inputClosed, output, outputClosed,
                   cancelled, pending, delivered, consumed, emitted, received,
                   consumerDone>>

\* producer: for _, sample := range testSamples { input <- sample }
ProducerSend ==
    /\ toSend # << >>
    /\ Len(input) < ChanCap
    /\ input' = Append(input, Head(toSend))
    /\ delivered' = Logged(delivered, Head(toSend))
    /\ toSend' = Tail(toSend)
    /\ UNCHANGED <<concVars, forestVars, inputClosed, output, outputClosed, cancelled, spc,
                   pending, sret, consumed, emitted, received, consumerDone>>

\* producer: close(input)
ProducerClose ==
    /\ toSend = << >>
    /\ ~inputClosed
    /\ inputClosed' = TRUE
    /\ UNCHANGED <<concVars, forestVars, toSend, input, output, outputClosed, cancelled, spc,
                   pending, sret, delivered, consumed, emitted, received,
                   consumerDone>>

\* consumer: for score := range output { results = append(results, score) }
\* One iteration: a Score is taken, or the loop exits on a closed, drained channel.
ConsumerStep ==
    /\ ~consumerDone
    /\ output # << >> \/ outputClosed
    /\ IF output # << >>
       THEN /\ received' = Logged(received, Head(output))
            /\ output' = Tail(output)
            /\ consumerDone' = consumerDone
       ELSE /\ consumerDone' = TRUE
            /\ UNCHANGED <<received, output>>
    /\ UNCHANGED <<concVars, forestVars, toSend, input, inputClosed, outputClosed, cancelled,
                   spc, pending, sret, delivered, consumed, emitted>>

\* cancel()
Cancel ==
    /\ ~cancelled
    /\ cancelled' = TRUE
    /\ UNCHANGED <<concVars, forestVars, toSend, input, inputClosed, output, outputClosed,
                   spc, pending, sret, delivered, consumed, emitted, received,
                   consumerDone>>

\* The steps of the three goroutines of the pipeline.
PipelineNext ==
    \/ StreamEnter
    \/ StreamCancelRecv
    \/ StreamRecv
    \/ StreamRecvClosed
    \/ StreamSend
    \/ StreamCancelSend
    \/ ProducerSend
    \/ ProducerClose
    \/ ConsumerStep

-----------------------------------------------------------------------------
(* The calls on forest 1 as concurrent goroutines take them: one step per lock *)
(* operation and, inside Fit, Load and SetThreshold, one step per assignment   *)
(* to a field of the forest.                                                   *)

Goroutines == {"writer", "setter", "reader", "streamer"}

WriterOps == {"Fit", "Load", "SetThreshold"}

\* What each goroutine calls.
OpsOf(g) ==
    CASE g = "writer" -> {"Fit", "Load"}
      [] g = "setter" -> {"SetThreshold"}
      [] g = "reader" -> {"Predict", "PredictOne", "Save", "Threshold"}
      [] g = "streamer" -> {"PredictStream"}

ConcDatasets == { << >>, <<SampleA, SampleB, SampleC>> }
ConcBlobs == { SubSeq(FullBlob, 1, 2), FullBlob }
ConcBatches == { <<SampleA, SampleB>> }
ConcSamples == { SampleB }

\* The arguments of a call; PredictStream stands for the trained check at its
\* entry and one turn of its loop on the sample received.
ArgsOf(op) ==
    CASE op = "Fit" -> ConcDatasets
      [] op = "Load" -> ConcBlobs
      [] op = "SetThreshold" -> { <<t>> : t \in Thresholds }
      [] op = "Predict" -> ConcBatches
      [] op \in {"PredictOne", "PredictStream"} -> { <<x>> : x \in ConcSamples }
      [] OTHER -> { NoArg }

NoResult == [err |-> "nil", scores |-> << >>, blob |-> << >>]

\* A goroutine between two calls, having completed n of them.
IdleGo(n) ==
    [pc |-> "idle", op |-> "none", arg |-> NoArg, i |-> 0, holds |-> "none",
     res |-> NoResult, done |-> n]

Go(g, state) == [h \in Goroutines |-> IF h = g THEN state ELSE gor[h]]

SetForest(f) == forests' = [i \in ForestIds |-> IF i = 1 THEN f ELSE forests[i]]

\* the call statement: the goroutine arrives at the method's first line
GoCall(g, op, arg) ==
    /\ gor[g].pc = "idle"
    /\ gor[g].done < MaxCalls
    /\ gor' = Go(g, [gor[g] EXCEPT !.pc = IF op \in WriterOps THEN "lock" ELSE "rlock",
                                   !.op = op, !.arg = arg, !.i = 1])
    /\ UNCHANGED <<forests, mu, ret, fitLog, nMut, opts, installed, streamVars>>

\* f.mu.Lock() of Fit, Load, SetThreshold
WLock(g) ==
    /\ gor[g].pc = "lock"
    /\ CanLock(mu[1])
    /\ mu' = [mu EXCEPT ![1] = Lock(@)]
    /\ gor' = Go(g, [gor[g] EXCEPT !.holds = "w",
                                   !.pc = IF gor[g].op = "Fit" THEN "fit"
                                          ELSE IF gor[g].op = "Load" THEN "decode"
                                          ELSE "write"])
    /\ UNCHANGED <<forests, ret, fitLog, nMut, opts, installed, streamVars>>

\* Fit: if len(data) == 0 { return error }; ...; f.trees = make([]*iTree, f.nTrees)
FitStart(g) ==
    /\ gor[g].pc = "fit"
    /\ IF Len(gor[g].arg) = 0
       THEN /\ SetForest(FitEmpty(forests[1]).forest)
            /\ gor' = Go(g, [gor[g] EXCEPT !.pc = "unlock",
                                           !.res = [NoResult EXCEPT !.err = "EmptyData"]])
       ELSE /\ SetForest([forests[1] EXCEPT !.trees = MakeTrees(forests[1])])
            /\ gor' = Go(g, [gor[g] EXCEPT !.pc = "tree", !.i = 0])
    /\ UNCHANGED <<mu, ret, fitLog, nMut, opts, installed, streamVars>>

\* Fit: one iteration of the tree loop
FitTreeStep(g) ==
    /\ gor[g].pc = "tree"
    /\ LET f == forests[1]
           data == gor[g].arg
           i == gor[g].i
       IN /\ SetForest(FitTree(f, data, ClampSampleSize(f, Len(data)), Len(data[1]), i,
                               Len(fitLog[1]) + 1))
          /\ gor' = Go(g, [gor[g] EXCEPT !.i = i + 1,
                                         !.pc = IF i + 1 >= f.nTrees THEN "avg" ELSE "tree"])
    /\ UNCHANGED <<mu, ret, fitLog, nMut, opts, installed, streamVars>>

\* Fit: f.avgPathLength = averagePathLength(float64(sampleSize))
FitAvg(g) ==
    /\ gor[g].pc = "avg"
    /\ SetForest([forests[1] EXCEPT !.avgPathLength =
                     averagePathLength(ClampSampleSize(forests[1], Len(gor[g].arg)))])
    /\ gor' = Go(g, [gor[g] EXCEPT !.pc = "trained"])
    /\ UNCHANGED <<mu, ret, fitLog, nMut, opts, installed, streamVars>>

\* Fit: f.trained = true
FitTrained(g) ==
    /\ gor[g].pc = "trained"
    /\ SetForest([forests[1] EXCEPT !.trained = TRUE])
    /\ gor' = Go(g, [gor[g] EXCEPT !.pc = "calibrate"])
    /\ UNCHANGED <<mu, ret, fitLog, nMut, opts, installed, streamVars>>

\* A calibration that scores through Predict, which takes the read lock.
CalibrateThroughPredict(m) == CanRLock(m)

\* Fit: the calibration. It scores the training data through f.predict, which
\* takes no lock, so it can run while this goroutine holds the writer lock.
CalibrateCanRun(m) == TRUE

FitCalibrate(g) ==
    /\ gor[g].pc = "calibrate"
    /\ CalibrateCanRun(mu[1])
    /\ SetForest(Calibrate(forests[1], gor[g].arg))
    /\ gor' = Go(g, [gor[g] EXCEPT !.pc = "unlock"])
    /\ UNCHANGED <<mu, ret, fitLog, nMut, opts, installed, streamVars>>

\* Load: the i-th dec.Decode(&f.<field>); a failure returns
LoadDecode(g) ==
    /\ gor[g].pc = "decode"
    /\ LET k == gor[g].i
           data == gor[g].arg
       IN IF k > Len(data) \/ data[k].t # WireTypeOf(LoadFields[k])
          THEN /\ gor' = Go(g, [gor[g] EXCEPT
                                   !.pc = "unlock",
                                   !.res = [NoResult EXCEPT !.err = "DeserializationFailed"]])
               /\ UNCHANGED forests
          ELSE /\ SetForest(DecodeInto(forests[1], LoadFields[k], data[k]))
               /\ gor' = Go(g, [gor[g] EXCEPT
                                   !.i = k + 1,
                                   !.pc = IF k = Len(LoadFields) THEN "finish" ELSE "decode"])
    /\ UNCHANGED <<mu, ret, fitLog, nMut, opts, installed, streamVars>>

\* Load: f.maxDepth = ...; f.trained = true
LoadDone(g) ==
    /\ gor[g].pc = "finish"
    /\ SetForest(LoadFinish(forests[1]))
    /\ gor' = Go(g, [gor[g] EXCEPT !.pc = "unlock"])
    /\ UNCHANGED <<mu, ret, fitLog, nMut, opts, installed, streamVars>>

\* SetThreshold: f.threshold = t
SetWrite(g) ==
    /\ gor[g].pc = "write"
    /\ SetForest(SetThreshold(forests[1], gor[g].arg[1]))
    /\ gor' = Go(g, [gor[g] EXCEPT !.pc = "unlock"])
    /\ UNCHANGED <<mu, ret, fitLog, nMut, opts, installed, streamVars>>

\* the deferred f.mu.Unlock() and the return of Fit, Load, SetThreshold
WUnlock(g) ==
    /\ gor[g].pc = "unlock"
    /\ mu' = [mu EXCEPT ![1] = Unlock(@)]
    /\ installed' = installed \cup { forests[1] }
    /\ fitLog' = IF gor[g].op = "Fit" /\ gor[g].res.err = "nil"
                 THEN [i \in ForestIds |-> IF i = 1 THEN Append(fitLog[1], gor[g].arg)
                                           ELSE fitLog[i]]
                 ELSE fitLog
    /\ ret' = Result(gor[g].op, 1, gor[g].arg, gor[g].res.err, << >>, << >>)
    /\ gor' = Go(g, IdleGo(gor[g].done + 1))
    /\ UNCHANGED <<forests, nMut, opts, streamVars>>

\* f.mu.RLock() of Predict, PredictOne, Save, Threshold and of PredictStream
RLockStep(g) ==
    /\ gor[g].pc = "rlock"
    /\ CanRLock(mu[1])
    /\ mu' = [mu EXCEPT ![1] = RLock(@)]
    /\ gor' = Go(g, [gor[g] EXCEPT !.pc = "read", !.holds = "r"])
    /\ UNCHANGED <<forests, ret, fitLog, nMut, opts, installed, streamVars>>

\* What the method computes from the forest between RLock and RUnlock. For
\* PredictStream: the trained check of its entry (i = 1), then f.PredictOne (i = 2).
ReadResult(f, op, arg, i) ==
    CASE op = "Predict" ->
           LET r == Predict(f, arg) IN [err |-> r.err, scores |-> r.scores, blob |-> << >>]
      [] op = "PredictOne" \/ (op = "PredictStream" /\ i = 2) ->
           LET r == PredictOne(f, arg[1])
           IN [err |-> r.err, scores |-> IF r.err = "nil" THEN <<r.score>> ELSE << >>,
               blob |-> << >>]
      [] op = "PredictStream" /\ i = 1 ->
           [NoResult EXCEPT !.err = IF f.trained THEN "nil" ELSE "NotTrained"]
      [] op = "Save" ->
           LET r == Save(f) IN [err |-> r.err, scores |-> << >>, blob |-> r.blob]
      [] op = "Threshold" ->
           [NoResult EXCEPT !.scores = <<f.threshold>>]

ReadStep(g) ==
    /\ gor[g].pc = "read"
    /\ gor' = Go(g, [gor[g] EXCEPT
                        !.pc = "runlock",
                        !.res = ReadResult(forests[1], gor[g].op, gor[g].arg, gor[g].i)])
    /\ UNCHANGED <<forests, mu, ret, fitLog, nMut, opts, installed, streamVars>>

\* f.mu.RUnlock(). The readers return here; PredictStream goes on to its loop
\* after the trained check, and to building the Score after PredictOne.
RUnlockStep(g) ==
    /\ gor[g].pc = "runlock"
    /\ mu' = [mu EXCEPT ![1] = RUnlock(@)]
    /\ IF gor[g].op = "PredictStream" /\ gor[g].res.err = "nil"
       THEN /\ gor' = Go(g, [gor[g] EXCEPT
                                !.holds = "none",
                                !.pc = IF gor[g].i = 1 THEN "rlock" ELSE "threshold",
                                !.i = 2])
            /\ ret' = ret
       ELSE /\ gor' = Go(g, IdleGo(gor[g].done + 1))
            /\ ret' = Result(gor[g].op, 1, gor[g].arg, gor[g].res.err,
                             gor[g].res.scores, gor[g].res.blob)
    /\ UNCHANGED <<forests, fitLog, nMut, opts, installed, streamVars>>

\* PredictStream: Score{Value: score, IsAnomaly: score >= f.threshold, ...}, built
\* after PredictOne has returned; the Score is handed to the send.
StreamThreshold(g) ==
    /\ gor[g].pc = "threshold"
    /\ LET score == gor[g].res.scores[1]
       IN ret' = Result("PredictStream", 1, gor[g].arg, "nil",
                        << Score(score, FGeq(score, forests[1].threshold), gor[g].arg[1]) >>,
                        << >>)
    /\ gor' = Go(g, IdleGo(gor[g].done + 1))
    /\ UNCHANGED <<forests, mu, fitLog, nMut, opts, installed, streamVars>>

\* A step of goroutine g inside a call.
GoStep(g) ==
    \/ WLock(g)
    \/ FitStart(g)
    \/ FitTreeStep(g)
    \/ FitAvg(g)
    \/ FitTrained(g)
    \/ FitCalibrate(g)
    \/ LoadDecode(g)
    \/ LoadDone(g)
    \/ SetWrite(g)
    \/ WUnlock(g)
    \/ RLockStep(g)
    \/ ReadStep(g)
    \/ RUnlockStep(g)
    \/ StreamThreshold(g)

-----------------------------------------------------------------------------
(* Specifications *)

Configs ==
    [ nTrees : 1..MaxTrees, sampleSize : 1..MaxSampleSize,
      contamination : Contaminations, seed : Seeds ]

NoCall == Result("none", 1, NoArg, "nil", << >>, << >>)

\* f1 := New(o1...); f2 := New(o2...)
InitForestVars(o1, o2) ==
    /\ opts = [i \in ForestIds |-> IF i = 1 THEN o1 ELSE o2]
    /\ forests = [i \in ForestIds |-> IF i = 1 THEN New(o1) ELSE New(o2)]
    /\ mu = [i \in ForestIds |-> FreeLock]
    /\ ret = NoCall
    /\ fitLog = [i \in ForestIds |-> << >>]
    /\ nMut = [i \in ForestIds |-> 0]

InitConcVars(models) ==
    /\ gor = [g \in Goroutines |-> IdleGo(0)]
    /\ installed = models

InitStreamVars(samples) ==
    /\ toSend = samples
    /\ delivered = << >>
    /\ input = << >>
    /\ inputClosed = FALSE
    /\ output = << >>
    /\ outputClosed = FALSE
    /\ cancelled = FALSE
    /\ spc = "idle"
    /\ pending = << >>
    /\ sret = "none"
    /\ consumed = << >>
    /\ emitted = << >>
    /\ received = << >>
    /\ consumerDone = FALSE

\* One forest and the calls of the library surface, one at a time.
Init ==
    /\ \E o \in { c \in Configs : c.seed = 1 } : InitForestVars(o, o)
    /\ InitStreamVars(<< >>)
    /\ InitConcVars({})

Next ==
    \/ \E d \in Datasets : FitCall(1, d)
    \/ \E b \in Blobs : LoadCall(1, b)
    \/ \E t \in Thresholds : SetThresholdCall(1, t)
    \/ \E b \in Batches : PredictCall(1, b)
    \/ \E x \in Samples : PredictOneCall(1, x)
    \/ SaveCall(1)
    \/ ThresholdCall(1)

Spec == Init /\ [][Next]_vars

\* Two forests, each with its own options and seed, and their Fit calls.
InitPair ==
    /\ \E o \in Configs, s \in Seeds :
          InitForestVars(o, [o EXCEPT !.seed = s])
    /\ InitStreamVars(<< >>)
    /\ InitConcVars({})

NextPair == \E f \in ForestIds, d \in Datasets : FitCall(f, d)

SpecPair == InitPair /\ [][NextPair]_vars

\* One forest, its Fit calls on datasets of up to MaxRows rows and SetThreshold.
CalibContaminations == {0, 50, 80}
CalibDatasets == { << >>, <<SampleA, SampleB, SampleC>>,
                   <<SampleA, SampleA, SampleA, SampleC, SampleA, SampleB>> }

InitCalib ==
    /\ \E o \in [ nTrees : 1..MaxTrees, sampleSize : 1..MaxSampleSize,
                   contamination : CalibContaminations, seed : {1} ] :
          InitForestVars(o, o)
    /\ InitStreamVars(<< >>)
    /\ InitConcVars({})

NextCalib ==
    \/ \E d \in CalibDatasets : FitCall(1, d)
    \/ \E t \in Thresholds : SetThresholdCall(1, t)

SpecCalib == InitCalib /\ [][NextCalib]_vars

\* Two forests that differ in sample_size only, and their Fit calls on datasets
\* with fewer rows, as many rows and more rows than the sample size.
SampleD == <<8, 8>>
ClampSampleSizes == {2, 4, 5}
ClampDatasets == { << >>, <<SampleA>>, <<SampleA, SampleB, SampleC>>,
                   <<SampleA, SampleC, SampleB, SampleD>> }

InitClamp ==
    /\ \E o \in [ nTrees : 1..MaxTrees, sampleSize : ClampSampleSizes,
                   contamination : Contaminations, seed : {2} ],
          ss \in ClampSampleSizes :
          InitForestVars(o, [o EXCEPT !.sampleSize = ss])
    /\ InitStreamVars(<< >>)
    /\ InitConcVars({})

NextClamp == \E f \in ForestIds, d \in ClampDatasets : FitCall(f, d)

SpecClamp == InitClamp /\ [][NextClamp]_vars

\* The streaming pipeline on forest 1, with concurrent readers and SetThreshold.
\* Forest 1 starts as a forest the calls above can produce: fresh, after a Fit
\* that failed, after a Load that failed, or fitted once.
StreamOpts == [nTrees |-> 2, sampleSize |-> 3, contamination |-> 50, seed |-> 7]
StreamDatasets == { <<SampleA, SampleB, SampleC>>, <<SampleA>> }
StreamSamples == { SampleA, SampleB }

InitStream ==
    /\ opts = [i \in ForestIds |-> StreamOpts]
    /\ mu = [i \in ForestIds |-> FreeLock]
    /\ ret = NoCall
    /\ \/ /\ forests = [i \in ForestIds |-> New(StreamOpts)]
          /\ fitLog = [i \in ForestIds |-> << >>]
          /\ nMut = [i \in ForestIds |-> 0]
       \/ /\ forests = [i \in ForestIds |->
                          IF i = 1 THEN Load(Fit(New(StreamOpts), << >>, 1).forest,
                                             SubSeq(FullBlob, 1, 2)).forest
                          ELSE New(StreamOpts)]
          /\ fitLog = [i \in ForestIds |-> << >>]
          /\ nMut = [i \in ForestIds |-> IF i = 1 THEN 1 ELSE 0]
       \/ \E d \in StreamDatasets :
            /\ forests = [i \in ForestIds |->
                            IF i = 1 THEN Fit(New(StreamOpts), d, 1).forest
                            ELSE New(StreamOpts)]
            /\ fitLog = [i \in ForestIds |-> IF i = 1 THEN <<d>> ELSE << >>]
            /\ nMut = [i \in ForestIds |-> 0]
    /\ \E samples \in SeqsUpTo(StreamSamples, MaxStream) : InitStreamVars(samples)
    /\ InitConcVars({})

NextStream ==
    \/ PipelineNext
    \/ Cancel
    \/ \E t \in Thresholds : SetThresholdCall(1, t)
    \/ \E b \in Batches : PredictCall(1, b)
    \/ \E x \in StreamSamples : PredictOneCall(1, x)
    \/ SaveCall(1)

SpecStream == InitStream /\ [][NextStream]_vars

\* The calls on forest 1 made by concurrent goroutines. The forest starts fresh
\* or fitted once.
InitConc ==
    /\ opts = [i \in ForestIds |-> StreamOpts]
    /\ mu = [i \in ForestIds |-> FreeLock]
    /\ ret = NoCall
    /\ nMut = [i \in ForestIds |-> 0]
    /\ \/ /\ forests = [i \in ForestIds |-> New(StreamOpts)]
          /\ fitLog = [i \in ForestIds |-> << >>]
       \/ \E d \in StreamDatasets :
            /\ forests = [i \in ForestIds |->
                            IF i = 1 THEN Fit(New(StreamOpts), d, 1).forest
                            ELSE New(StreamOpts)]
            /\ fitLog = [i \in ForestIds |-> IF i = 1 THEN <<d>> ELSE << >>]
    /\ InitStreamVars(<< >>)
    /\ gor = [g \in Goroutines |-> IdleGo(0)]
    /\ installed = { forests[1] }

NextConc ==
    \E g \in Goroutines :
        \/ \E op \in OpsOf(g) : \E arg \in ArgsOf(op) : GoCall(g, op, arg)
        \/ GoStep(g)

SpecConc == InitConc /\ [][NextConc]_vars

\* Whether goroutine g can take a step inside its call: it waits only at Lock,
\* at RLock and, in Fit's calibration, for whatever the scoring path locks.
CanStep(g) ==
    CASE gor[g].pc = "idle" -> FALSE
      [] gor[g].pc = "lock" -> CanLock(mu[1])
      [] gor[g].pc = "rlock" -> CanRLock(mu[1])
      [] gor[g].pc = "calibrate" -> CalibrateCanRun(mu[1])
      [] OTHER -> TRUE

\* Weak fairness of GoStep(g), its enabling condition written as CanStep(g): a
\* goroutine that can take a step from some point on takes one.
GoFair(g) == ([]<>(~CanStep(g))) \/ ([]<><<GoStep(g)>>_vars)

\* The scheduler runs every goroutine that can take a step; a goroutine is under
\* no obligation to make a further call.
SpecConcFair == SpecConc /\ \A g \in Goroutines : GoFair(g)

\* a sender that never runs out of samples and never closes input
ProducerEndless ==
    /\ ~inputClosed
    /\ Len(input) < ChanCap
    /\ \E x \in StreamSamples :
          /\ input' = Append(input, x)
          /\ delivered' = Logged(delivered, x)
    /\ UNCHANGED <<concVars, forestVars, toSend, inputClosed, output, outputClosed, cancelled,
                   spc, pending, sret, consumed, emitted, received, consumerDone>>

\* PredictStream leaving through a ctx.Done() case of one of its two selects.
StreamCancelReturn == StreamCancelRecv \/ StreamCancelSend

\* The pipeline with a sender that may go on for ever. select chooses among its
\* ready cases uniformly at random, so a ctx.Done() case that stays ready at every
\* select is eventually the one chosen; producer and consumer are under no
\* obligation to take a step.
NextLive == PipelineNext \/ Cancel \/ ProducerEndless

SpecLive == InitStream /\ [][NextLive]_vars /\ WF_vars(StreamCancelReturn)

-----------------------------------------------------------------------------
(* Properties *)

ReadOps == {"Predict", "PredictOne", "Save"}

\* C1: on a forest that never had a successful Fit or Load (its trained flag is
\* unset), Predict, PredictOne and Save return NotTrained with no result, and
\* PredictStream returns NotTrained having received nothing from input and sent
\* nothing to output; after any of these the forest is still untrained.
C1_NotTrained ==
    /\ (ret.op \in ReadOps /\ ~forests[ret.f].trained) =>
          (ret.err = "NotTrained" /\ ret.scores = << >> /\ ret.blob = << >>)
    /\ (ret.op \in ReadOps /\ ret.err = "NotTrained") => ~forests[ret.f].trained
    /\ (~forests[1].trained /\ spc # "idle") =>
          (spc = "returned" /\ sret = "NotTrained")
    /\ sret = "NotTrained" =>
          (~forests[1].trained /\ consumed = << >> /\ emitted = << >>
             /\ input = delivered /\ output = << >> /\ pending = << >>)

\* An untrained forest (after a failed Fit and a failed Load) on which Save and
\* PredictStream have returned NotTrained while a sample waits on input.
C1_Witness ==
    /\ ~forests[1].trained
    /\ nMut[1] = 1
    /\ ret.op = "Save" /\ ret.err = "NotTrained"
    /\ sret = "NotTrained"
    /\ input # << >>

\* C2: Fit with an empty dataset returns EmptyData and changes nothing: trees,
\* avg_path_length, threshold, the trained flag and every other field of the
\* forest are as before the call (trained or not), and the lock is free again.
C2_FitEmptyChangesNothing ==
    [][ (ret'.op = "Fit" /\ ret'.arg = << >>) =>
           /\ ret'.err = "EmptyData"
           /\ forests' = forests
           /\ fitLog' = fitLog
           /\ mu'[ret'.f] = FreeLock ]_vars

\* A trained forest right after a Fit with an empty dataset.
C2_Witness ==
    /\ ret.op = "Fit" /\ ret.arg = << >> /\ ret.err = "EmptyData"
    /\ forests[1].trained
    /\ Len(forests[1].trees) = forests[1].nTrees
    /\ Len(fitLog[1]) >= 1

\* C3: right after a successful Fit (the first or a repeated one) the forest is
\* trained and holds exactly n_trees trees, each built by that Fit call.
C3_FitBuildsNTrees ==
    (ret.op = "Fit" /\ ret.err = "nil") =>
        LET f == forests[ret.f] IN
        /\ f.trained
        /\ Len(f.trees) = f.nTrees
        /\ \A i \in 1..Len(f.trees) :
              /\ f.trees[i].builtBy = Len(fitLog[ret.f])
              /\ f.trees[i].root # NilNode

\* A forest right after its second successful Fit.
C3_Witness ==
    /\ ret.op = "Fit" /\ ret.err = "nil"
    /\ Len(fitLog[1]) = 2
    /\ forests[1].nTrees = MaxTrees

InUnit(x) == x.k = "num" /\ 0 <= x.v /\ x.v <= 1000

\* C4: right after a successful Fit on a non-empty dataset, avg_path_length is not
\* zero and every score of PredictOne and every element of Predict is a number
\* in [0, 1].
C4_ScoresInUnitInterval ==
    (ret.op = "Fit" /\ ret.err = "nil") =>
        LET f == forests[ret.f] IN
        /\ f.avgPathLength # Num(0)
        /\ \A x \in Samples : InUnit(PredictOne(f, x).score)
        /\ \A b \in Batches : \A i \in 1..Len(b) : InUnit(Predict(f, b).scores[i])

\* C5: a successful Predict returns as many scores as the batch has samples, the
\* i-th being what PredictOne returns for the i-th sample.
C5_PredictMatchesPredictOne ==
    (ret.op = "Predict" /\ ret.err = "nil") =>
        /\ Len(ret.scores) = Len(ret.arg)
        /\ \A i \in 1..Len(ret.arg) :
              LET one == PredictOne(forests[ret.f], ret.arg[i]) IN
              one.err = "nil" /\ ret.scores[i] = one.score

\* A Predict on a batch of three samples whose scores are not all the same.
C5_Witness ==
    /\ ret.op = "Predict" /\ ret.err = "nil"
    /\ Len(ret.arg) = 3
    /\ ret.scores[2] # ret.scores[3]
    /\ \A i \in 1..3 : InUnit(ret.scores[i])

\* C6: two forests constructed with the same options and seed, each fitted once
\* on the same dataset, have the same trees, avg_path_length and threshold, and
\* score every sample and every batch alike.
C6_SameSeedSameModel ==
    \A f \in ForestIds : \A g \in ForestIds :
        (opts[f] = opts[g] /\ Len(fitLog[f]) = 1 /\ fitLog[f] = fitLog[g]) =>
            /\ Roots(forests[f].trees) = Roots(forests[g].trees)
            /\ forests[f].avgPathLength = forests[g].avgPathLength
            /\ forests[f].threshold = forests[g].threshold
            /\ \A x \in Samples : PredictOne(forests[f], x) = PredictOne(forests[g], x)
            /\ \A b \in Batches : Predict(forests[f], b) = Predict(forests[g], b)

\* Two forests of the same options and seed, fitted once each on the same three
\* rows, whose first tree has an internal root.
C6_Witness ==
    /\ opts[1] = opts[2]
    /\ Len(fitLog[1]) = 1 /\ fitLog[1] = fitLog[2]
    /\ Len(fitLog[1][1]) = 3
    /\ forests[1].trees[1].root.left # NilNode
    /\ forests[2].trees[1].root.left # NilNode

\* C7: for every trained forest Save succeeds with a non-empty blob, and Load of
\* that blob into a freshly constructed forest succeeds and gives a trained forest
\* with the same n_trees, sample_size, contamination, threshold, avg_path_length
\* and trees, which scores every batch alike.
C7_SaveLoadRoundTrip ==
    \A f \in ForestIds :
        forests[f].trained =>
            LET saved == Save(forests[f])
                loaded == Load(New(DefaultOpts), saved.blob)
            IN /\ saved.err = "nil"
               /\ saved.blob # << >>
               /\ loaded.err = "nil"
               /\ loaded.forest.trained
               /\ loaded.forest.nTrees = forests[f].nTrees
               /\ loaded.forest.sampleSize = forests[f].sampleSize
               /\ loaded.forest.contamination = forests[f].contamination
               /\ loaded.forest.threshold = forests[f].threshold
               /\ loaded.forest.avgPathLength = forests[f].avgPathLength
               /\ Roots(loaded.forest.trees) = Roots(forests[f].trees)
               /\ \A b \in Batches : Predict(loaded.forest, b) = Predict(forests[f], b)

\* C8: when PredictStream has returned and no cancel was raised, it returned
\* success, it has taken every sample delivered on input, and it has sent exactly
\* one Score per sample, in input order, the i-th with the i-th sample as features
\* and PredictOne of it as value; none is lost or duplicated on the way to the
\* consumer.
C8_StreamFifo ==
    (forests[1].trained /\ spc = "returned" /\ ~cancelled) =>
        /\ sret = "nil"
        /\ inputClosed /\ input = << >> /\ toSend = << >>
        /\ consumed = delivered
        /\ Len(emitted) = Len(delivered)
        /\ \A i \in 1..Len(emitted) :
              /\ emitted[i].Features = delivered[i]
              /\ emitted[i].Value = PredictOne(forests[1], delivered[i]).score
        /\ received \o output = emitted

\* PredictStream has returned success after MaxStream samples with different
\* scores, and the consumer has read them all.
C8_Witness ==
    /\ forests[1].trained /\ spc = "returned" /\ sret = "nil" /\ ~cancelled
    /\ Len(delivered) = MaxStream
    /\ received = emitted
    /\ Len(emitted) = MaxStream
    /\ emitted[1].Value # emitted[2].Value

\* C9: in the pipeline of TestPredictStream and the README (no cancel before the
\* loop ends), the consumer's loop over output terminates with one Score per
\* sample: whenever no goroutine of the pipeline can take a step, the loop has
\* exited and holds as many Scores as samples were sent.
C9_ConsumerLoopTerminates ==
    (forests[1].trained /\ ~cancelled) =>
        \/ ENABLED PipelineNext
        \/ consumerDone /\ Len(received) = Len(delivered)

\* C10: once cancel is raised, a running PredictStream sends no further Score and
\* what it returns is the cancellation error.
C10_CancelStopsStream ==
    [][ (cancelled /\ spc \in {"select", "send"}) =>
           /\ emitted' = emitted
           /\ (spc' = "returned" => sret' = "Cancelled") ]_vars

\* C11: once cancel has been raised, a running PredictStream eventually returns,
\* whether it waits on an input that delivers nothing, is blocked sending to an
\* output nobody reads, or is fed samples without end.
C11_CancelTerminates ==
    (cancelled /\ spc \in {"select", "send"}) ~> (spc = "returned")

\* PredictStream returned the cancellation error out of a send blocked on a full
\* output.
C11_Witness ==
    /\ cancelled /\ spc = "returned" /\ sret = "Cancelled"
    /\ pending # << >>
    /\ Len(output) = ChanCap

\* The last call returned what the operation computes from model m alone.
ScoredFrom(m) ==
    IF ret.op = "PredictStream"
    THEN IF ret.err = "NotTrained" THEN ~m.trained
         ELSE LET r == ReadResult(m, "PredictStream", ret.arg, 2)
              IN /\ m.trained
                 /\ r.err = ret.err
                 /\ r.err = "nil" => ret.scores[1].Value = r.scores[1]
    ELSE LET r == ReadResult(m, ret.op, ret.arg, 1)
         IN r.err = ret.err /\ r.scores = ret.scores

\* C12: with Fit, Load and SetThreshold running concurrently, every result of
\* Predict, PredictOne and of PredictStream's scoring is what the operation
\* computes from one installed model: the forest as it was at a moment when no
\* writer held the lock. No result comes from a state in the middle of a Fit or
\* a Load.
C12_ScoresFromOneModel ==
    (installed # {} /\ ret.op \in {"Predict", "PredictOne", "PredictStream"}) =>
        \E m \in installed : ScoredFrom(m)

\* PredictOne returned a score while the writer goroutine's Fit or Load was
\* waiting for the lock or had completed, and the models installed so far do not
\* all give that score.
C12_Witness ==
    /\ installed # {}
    /\ ret.op = "PredictOne" /\ ret.err = "nil"
    /\ gor["writer"].pc = "lock" \/ gor["writer"].done > 0
    /\ \E m \in installed : m.trained /\ ~ScoredFrom(m)

\* C13: every Score that PredictStream sends on output has is_anomaly equal to
\* value >= threshold, the threshold being the forest's at the moment of the send.
C13_AnomalyAtEmission ==
    [][ (spc = "send" /\ spc' = "select") =>
           pending[1].IsAnomaly = FGeq(pending[1].Value, forests'[1].threshold) ]_vars

\* C14: a successful Fit on n rows leaves the threshold at the element of index
\* floor((n-1)*(1-contamination)) of the ascending scores of the n rows under the new
\* model when contamination > 0, and leaves it as it was when contamination = 0.
C14_ThresholdAtClaimedIndex ==
    [][ (ret'.op = "Fit" /\ ret'.err = "nil" /\ fitLog' # fitLog) =>
          LET n == Len(ret'.arg)
              c == forests'[1].contamination
              sorted == SortOuter(predict(forests'[1], ret'.arg), 2)
          IN IF c > 0
             THEN forests'[1].threshold = sorted[((n - 1) * (100 - c)) \div 100 + 1]
             ELSE forests'[1].threshold = forests[1].threshold ]_vars

\* C15: on a dataset of n rows a forest configured with sample_size > n and a forest
\* configured with sample_size = n, alike otherwise, have after Fit the same trees,
\* the same avg_path_length, the same threshold and the same predictions.
C15_ClampedLikeExact ==
    ( /\ Len(fitLog[1]) = 1 /\ fitLog[2] = fitLog[1]
      /\ opts[1] = [opts[2] EXCEPT !.sampleSize = opts[1].sampleSize]
      /\ opts[1].sampleSize > Len(fitLog[1][1])
      /\ opts[2].sampleSize = Len(fitLog[1][1]) )
    => /\ Roots(forests[1].trees) = Roots(forests[2].trees)
       /\ forests[1].avgPathLength = forests[2].avgPathLength
       /\ forests[1].threshold = forests[2].threshold
       /\ predict(forests[1], fitLog[1][1]) = predict(forests[2], fitLog[1][1])

\* the depth of the deepest leaf below a node
RECURSIVE Height(_)
Height(nd) ==
    IF nd.left = NilNode THEN 0 ELSE 1 + Max(Height(nd.left), Height(nd.right))

\* C16: after a successful Fit on n rows every leaf of every tree lies at depth at
\* most ceil(log2(min(sample_size, n))); after a Fit on a single row every tree is
\* a single leaf.
C16_LeavesWithinEffectiveDepth ==
    \A f \in ForestIds :
        fitLog[f] # << >> =>
            LET n == Len(fitLog[f][Len(fitLog[f])])
                trees == forests[f].trees
            IN /\ \A i \in DOMAIN trees :
                     Height(trees[i].root) <= CeilLog2(Min(opts[f].sampleSize, n))
               /\ n = 1 => \A i \in DOMAIN trees : trees[i].root = LeafNode(1)

\* every node has both children or none
RECURSIVE WellFormed(_)
WellFormed(nd) ==
    IF nd.left = NilNode THEN nd.right = NilNode
    ELSE nd.right # NilNode /\ WellFormed(nd.left) /\ WellFormed(nd.right)

\* the rows reach the leaves of nd that count them: at an internal node the rows
\* with value < split (the split being in halves) are below the left child and the
\* rows with value >= split below the right child
RECURSIVE Routes(_, _)
Routes(nd, rows) ==
    IF nd.left = NilNode THEN nd.size = Len(rows)
    ELSE /\ Routes(nd.left,
                   SelectSeq(rows, LAMBDA row : 2 * row[nd.splitFeature + 1] < nd.splitValue))
         /\ Routes(nd.right,
                   SelectSeq(rows, LAMBDA row : 2 * row[nd.splitFeature + 1] >= nd.splitValue))

RECURSIVE LeafSum(_)
LeafSum(nd) == IF nd.left = NilNode THEN nd.size ELSE LeafSum(nd.left) + LeafSum(nd.right)

\* the rows of data at the indices in I, in index order
RowsAt(data, I) ==
    LET pick[i \in 0..Len(data)] ==
            IF i = 0 THEN << >>
            ELSE IF i \in I THEN Append(pick[i - 1], data[i]) ELSE pick[i - 1]
    IN pick[Len(data)]

\* C17: every tree built by Fit has nodes with both children or none, routes psi =
\* min(sample_size, n) rows at distinct indices of the dataset with < to the left and
\* >= to the right, and counts at each leaf the rows that reached it, the leaf sizes
\* summing to psi.
C17_TreesPartitionTheSubsample ==
    \A f \in ForestIds :
        fitLog[f] # << >> =>
            LET data == fitLog[f][Len(fitLog[f])]
                psi == Min(opts[f].sampleSize, Len(data))
                trees == forests[f].trees
            IN \A i \in DOMAIN trees :
                 /\ WellFormed(trees[i].root)
                 /\ LeafSum(trees[i].root) = psi
                 /\ \E I \in SUBSET (1..Len(data)) :
                        Cardinality(I) = psi /\ Routes(trees[i].root, RowsAt(data, I))

\* a forest that subsampled (sample_size < n) has an internal root, and a forest has
\* a tree where a row equal to the split value went right, leaving the left leaf empty
C17_Witness ==
    /\ \E f \in ForestIds :
          /\ fitLog[f] # << >>
          /\ opts[f].sampleSize < Len(fitLog[f][Len(fitLog[f])])
          /\ \E i \in DOMAIN forests[f].trees : forests[f].trees[i].root.left # NilNode
    /\ \E f \in ForestIds :
          /\ fitLog[f] # << >>
          /\ \E i \in DOMAIN forests[f].trees :
                forests[f].trees[i].root.left = LeafNode(0)

\* the positions at which the next statement of a call writes fields of the forest,
\* and those at which it reads them
WritePcs == {"fit", "tree", "avg", "trained", "calibrate", "decode", "finish", "write"}
ReadPcs == {"read", "threshold"}

\* C18: every read or write of the forest's fields happens while the operation
\* holds the lock (the writer lock in Fit, Load, SetThreshold, the reader lock in
\* the others), so no read of a field overlaps a writer.
C18_AccessUnderLock ==
    /\ \A g \in Goroutines :
          /\ gor[g].pc \in WritePcs => gor[g].holds = "w"
          /\ gor[g].pc \in ReadPcs => gor[g].holds = "r"
    /\ \A g, h \in Goroutines :
          ~(gor[g].pc \in ReadPcs /\ gor[h].pc \in WritePcs \cup {"unlock"})

\* C19: a Load that fails with a deserialization error leaves n_trees, sample_size,
\* contamination, threshold, avg_path_length, trees, max_depth and the trained flag
\* as they were before the call.
C19_FailedLoadChangesNothing ==
    [][ (ret'.op = "Load" /\ nMut' # nMut /\ ret'.err = "DeserializationFailed") =>
          forests'[1] = forests[1] ]_vars

\* C20: the lock neither leaks nor deadlocks: when no call is in progress the lock
\* is free, a goroutine holds the lock only between its lock and its unlock, and
\* every call that has started eventually returns, under any interleaving.
C20_CallsComplete ==
    /\ []((\A g \in Goroutines : gor[g].pc = "idle") => mu[1] = FreeLock)
    /\ [](\A g \in Goroutines : gor[g].pc \in {"idle", "lock", "rlock", "threshold"}
                                    => gor[g].holds = "none")
    /\ \A g \in Goroutines : (gor[g].pc # "idle") ~> (gor[g].pc = "idle")

\* every goroutine has completed a call, the last to return being a Fit that
\* calibrated its threshold under the writer lock
C20_Witness ==
    /\ \A g \in Goroutines : gor[g].pc = "idle" /\ gor[g].done >= 1
    /\ mu[1] = FreeLock
    /\ ret.op = "Fit" /\ ret.err = "nil"
    /\ forests[1].contamination > 0

====
